---- MODULE Spec2Model ----
(***************************************************************************)
(* Model of step05/agent.py: the podcast_speaker tool.                     *)
(*                                                                         *)
(* One invocation of podcast_speaker is a straight-line program: call the  *)
(* speech-synthesis capability, extract the inline audio payload of the    *)
(* first part of the first candidate, wrap it in a WAV container built in  *)
(* memory with the wave module, hand the container to the artifact store   *)
(* and report.  The synthesis capability and the artifact store are        *)
(* external: synthesis answers with a response object (or raises), the     *)
(* store completes (or raises).  The program counter pc names the source   *)
(* line the invocation is about to execute.                                *)
(*                                                                         *)
(* Python values are modelled as records tagged with their type, so that   *)
(* None, an empty list and an empty bytes object stay distinct, and        *)
(* Python's truth test is the operator Truthy.  Bytes are sequences of     *)
(* integers 0..255.  The host is little-endian (on a big-endian host       *)
(* wave byte-swaps 16-bit frames; that case is not modelled).              *)
(***************************************************************************)
EXTENDS Integers, Sequences, FiniteSets, TLC

VARIABLES
    script,          \* the transcript argument of podcast_speaker
    stub,            \* what the synthesis capability answers for this script
    pc,              \* position of the current invocation
    response,        \* local: response (line 33)
    audio_content,   \* local: audio_content (lines 64-72)
    wav_on_memory,   \* local: the io.BytesIO buffer (line 82)
    wf,              \* local: the wave.Wave_write object (line 83)
    requests,        \* synthesis requests issued by the current invocation
    saves,           \* save_artifact calls issued by the current invocation
    events,          \* ordered trace of the current invocation
    outcome,         \* "running", "returned" or "raised"
    result,          \* the value returned to the caller, None until then
    artifacts,       \* the artifact store: every save that completed
    history,         \* outcome and result of every finished invocation
    ncalls           \* number of invocations started

vars == << script, stub, pc, response, audio_content, wav_on_memory, wf,
           requests, saves, events, outcome, result, artifacts, history,
           ncalls >>

----------------------------------------------------------------------------
(* Bounds of the model. *)

\* longest PCM payload, in bytes
MaxLen == 3
\* most parts after the first part, and most candidates after the first
MaxExtra == 1
\* invocations of podcast_speaker in one behaviour
MaxCalls == 2

\* byte values the payloads are drawn from
PayloadBytes == {0, 255}

----------------------------------------------------------------------------
(* Python values. *)

None == [type |-> "NoneType"]
Bytes(b) == [type |-> "bytes", value |-> b]
List(s) == [type |-> "list", items |-> s]
Blob(d, m) == [type |-> "Blob", data |-> d, mime_type |-> m]
Part(i) == [type |-> "Part", inline_data |-> i]
Content(p) == [type |-> "Content", parts |-> p]
Candidate(c) == [type |-> "Candidate", content |-> c]
GenerateContentResponse(c) == [type |-> "GenerateContentResponse", candidates |-> c]

\* Python's truth test: None, an empty list and empty bytes are false,
\* every other object here (a pydantic model) is true.
Truthy(x) ==
    CASE x.type = "NoneType" -> FALSE
      [] x.type = "list" -> Len(x.items) > 0
      [] x.type = "bytes" -> Len(x.value) > 0
      [] OTHER -> TRUE

SeqsUpTo(S, n) == UNION { [1..k -> S] : k \in 0..n }

----------------------------------------------------------------------------
(* Program constants. *)

MODEL_GEMINI_2_5_FLASH_PREVIEW_TTS == "gemini-2.5-flash-preview-tts"
\* the fixed Japanese instruction of lines 35-36, named in ASCII
PROMPT_PREAMBLE == "bright-tone two-person conversation"
NCHANNELS == 1
SAMPWIDTH == 2
FRAMERATE == 24000
ARTIFACT_FILENAME == "podcast.wav"
ARTIFACT_MIME_TYPE == "audio/wav"

FailureResult ==
    [status |-> "failure", detail |-> "failed to generate podcast audio"]

SuccessResult ==
    [status |-> "success",
     detail |-> "Audio generated successfully and stored in artifacts.",
     filename |-> "podcast.wav"]

----------------------------------------------------------------------------
(* Inputs: the responses the synthesis capability can give. *)

PCM_MIME == "audio/L16;codec=pcm;rate=24000"

Payloads == SeqsUpTo(PayloadBytes, MaxLen)

\* what the parts and candidates after the first hold: a payload that differs
\* from every payload a first part carries
DecoyPayload == << 7, 7 >>

FirstParts ==
    { Part(None), Part(Blob(None, PCM_MIME)) }
        \cup { Part(Blob(Bytes(p), PCM_MIME)) : p \in Payloads }

LaterParts == { Part(None), Part(Blob(Bytes(DecoyPayload), PCM_MIME)) }

Contents ==
    { None, Content(None), Content(List(<< >>)) }
        \cup { Content(List(<< f >> \o t)) :
                 f \in FirstParts, t \in SeqsUpTo(LaterParts, MaxExtra) }

LaterCandidates ==
    { Candidate(None),
      Candidate(Content(List(<< Part(Blob(Bytes(DecoyPayload), PCM_MIME)) >>))) }

Responses ==
    { None, GenerateContentResponse(None), GenerateContentResponse(List(<< >>)) }
        \cup { GenerateContentResponse(List(<< Candidate(c) >> \o t)) :
                 c \in Contents, t \in SeqsUpTo(LaterCandidates, MaxExtra) }

Scripts == { "Speaker 1: Hello / Speaker 2: Hi there", "" }


----------------------------------------------------------------------------
(* struct.pack / struct.unpack, little-endian, unsigned. *)

\* n as k little-endian bytes
LE(n, k) == [i \in 1..k |-> (n \div (256 ^ (i - 1))) % 256]

\* the unsigned 16-bit and 32-bit little-endian numbers at 0-based offset off
U16(b, off) == b[off + 1] + 256 * b[off + 2]
U32(b, off) ==
    b[off + 1] + 256 * b[off + 2] + 65536 * b[off + 3] + 16777216 * b[off + 4]

Slice(b, from, to) == [i \in 1..(to - from) |-> b[from + i]]

\* file.seek(pos); file.write(bytes) inside the bytes already written
Overwrite(f, pos, bytes) ==
    [i \in 1..Len(f) |->
        IF i > pos /\ i <= pos + Len(bytes) THEN bytes[i - pos] ELSE f[i]]

RIFF == << 82, 73, 70, 70 >>
WAVE == << 87, 65, 86, 69 >>
FMT == << 102, 109, 116, 32 >>
DATA == << 100, 97, 116, 97 >>

----------------------------------------------------------------------------
(* The wave module's writer, as podcast_speaker drives it (lines 83-87).   *)
(* A writer state is the Wave_write object w together with the bytes f of  *)
(* the file it writes to.                                                  *)

BytesIO(b) == [type |-> "BytesIO", value |-> b]

\* wave.open(wav_on_memory, 'wb')
WaveWrite ==
    [type |-> "Wave_write", nchannels |-> 0, sampwidth |-> 0, framerate |-> 0,
     nframes |-> 0, nframeswritten |-> 0, datawritten |-> 0, datalength |-> 0,
     headerwritten |-> FALSE, form_length_pos |-> 0, data_length_pos |-> 0,
     closed |-> FALSE]

\* Wave_write._write_header(initlength); the format tag 1 is WAVE_FORMAT_PCM
WriteHeader(w, f, initlength) ==
    LET nframes == IF w.nframes = 0
                   THEN initlength \div (w.nchannels * w.sampwidth)
                   ELSE w.nframes
        datalength == nframes * w.nchannels * w.sampwidth
        f1 == f \o RIFF
        f2 == f1 \o LE(36 + datalength, 4) \o WAVE \o FMT \o LE(16, 4)
                 \o LE(1, 2) \o LE(w.nchannels, 2) \o LE(w.framerate, 4)
                 \o LE(w.nchannels * w.framerate * w.sampwidth, 4)
                 \o LE(w.nchannels * w.sampwidth, 2)
                 \o LE(w.sampwidth * 8, 2) \o DATA
    IN  [w |-> [w EXCEPT !.nframes = nframes, !.datalength = datalength,
                         !.form_length_pos = Len(f1),
                         !.data_length_pos = Len(f2),
                         !.headerwritten = TRUE],
         f |-> f2 \o LE(datalength, 4)]

\* Wave_write._ensure_header_written(datasize)
EnsureHeaderWritten(w, f, datasize) ==
    IF w.headerwritten THEN [w |-> w, f |-> f] ELSE WriteHeader(w, f, datasize)

\* Wave_write._patchheader()
PatchHeader(w, f) ==
    IF w.datawritten = w.datalength
    THEN [w |-> w, f |-> f]
    ELSE [w |-> [w EXCEPT !.datalength = w.datawritten],
          f |-> Overwrite(
                    Overwrite(f, w.form_length_pos, LE(36 + w.datawritten, 4)),
                    w.data_length_pos, LE(w.datawritten, 4))]

\* writeframesraw as it would be if it wrote whole frames only
WriteFramesRawWholeFrames(w, f, data) ==
    LET h == EnsureHeaderWritten(w, f, Len(data))
        nframes == Len(data) \div (h.w.sampwidth * h.w.nchannels)
        whole == SubSeq(data, 1, nframes * h.w.sampwidth * h.w.nchannels)
    IN  [w |-> [h.w EXCEPT !.datawritten = h.w.datawritten + Len(whole),
                           !.nframeswritten = h.w.nframeswritten + nframes],
         f |-> h.f \o whole]

\* Wave_write.writeframesraw(data)
WriteFramesRaw(w, f, data) ==
    LET h == EnsureHeaderWritten(w, f, Len(data))
        nframes == Len(data) \div (h.w.sampwidth * h.w.nchannels)
    IN  [w |-> [h.w EXCEPT !.datawritten = h.w.datawritten + Len(data),
                           !.nframeswritten = h.w.nframeswritten + nframes],
         f |-> h.f \o data]

\* Wave_write.writeframes(data)
WriteFrames(w, f, data) ==
    LET r == WriteFramesRaw(w, f, data)
    IN  IF r.w.datalength # r.w.datawritten THEN PatchHeader(r.w, r.f) ELSE r

\* Wave_write.close(), run when the with block of line 83 is left
WaveClose(w, f) ==
    LET h == EnsureHeaderWritten(w, f, 0)
        p == IF h.w.datalength # h.w.datawritten THEN PatchHeader(h.w, h.f) ELSE h
    IN  [w |-> [p.w EXCEPT !.closed = TRUE], f |-> p.f]


----------------------------------------------------------------------------
(* podcast_speaker, lines 24-97. *)

\* lines 33-62: the request handed to client.models.generate_content
SynthesisRequest(s) ==
    [model |-> MODEL_GEMINI_2_5_FLASH_PREVIEW_TTS,
     contents |-> << PROMPT_PREAMBLE, s >>,
     response_modalities |-> << "AUDIO" >>,
     speaker_voice_configs |->
        << [speaker |-> "Speaker 1", voice_name |-> "Puck"],
           [speaker |-> "Speaker 2", voice_name |-> "Zephyr"] >>]

\* the extraction as it would be with audio_content initialised to b""
ExtractAudioDefaultEmpty(r) ==
    IF Truthy(r) /\ Truthy(r.candidates)
    THEN LET candidate == r.candidates.items[1]
         IN  IF Truthy(candidate.content) /\ Truthy(candidate.content.parts)
             THEN LET part == candidate.content.parts.items[1]
                  IN  IF Truthy(part.inline_data)
                      THEN part.inline_data.data
                      ELSE Bytes(<< >>)
             ELSE Bytes(<< >>)
    ELSE Bytes(<< >>)

\* the extraction as it would be if it took the first part that holds
\* inline data, wherever it stands in the first candidate
ExtractAudioAnyPart(r) ==
    IF Truthy(r) /\ Truthy(r.candidates)
    THEN LET candidate == r.candidates.items[1]
         IN  IF Truthy(candidate.content) /\ Truthy(candidate.content.parts)
             THEN LET parts == candidate.content.parts.items
                      held == { i \in 1..Len(parts) : Truthy(parts[i].inline_data) }
                  IN  IF held # {}
                      THEN parts[CHOOSE i \in held : \A j \in held : i <= j].inline_data.data
                      ELSE None
             ELSE None
    ELSE None

\* lines 64-72: audio_content, None unless every level is present
ExtractAudio(r) ==
    IF Truthy(r) /\ Truthy(r.candidates)
    THEN LET candidate == r.candidates.items[1]
         IN  IF Truthy(candidate.content) /\ Truthy(candidate.content.parts)
             THEN LET part == candidate.content.parts.items[1]
                  IN  IF Truthy(part.inline_data)
                      THEN part.inline_data.data
                      ELSE None
             ELSE None
    ELSE None

\* the test of line 74 as it would be written "if not audio_content"
IsNoneFalsy(a) == ~Truthy(a)

\* line 74: audio_content is None
IsNone(a) == a = None

\* types.Part.from_bytes(data=..., mime_type=...)
PartFromBytes(data, mime_type) == Part(Blob(Bytes(data), mime_type))

Init ==
    /\ script \in Scripts
    /\ stub \in Responses
    /\ pc = "idle"
    /\ response = None
    /\ audio_content = None
    /\ wav_on_memory = None
    /\ wf = None
    /\ requests = << >>
    /\ saves = << >>
    /\ events = << >>
    /\ outcome = "running"
    /\ result = None
    /\ artifacts = << >>
    /\ history = << >>
    /\ ncalls = 0

\* line 24: the tool is called with the script.  The locals of an earlier
\* invocation are left as they were: the function assigns each local before
\* it reads it, so their old values are never observed.
Call ==
    /\ pc = "idle"
    /\ ncalls < MaxCalls
    /\ ncalls' = ncalls + 1
    /\ pc' = "L33"
    /\ requests' = << >>
    /\ saves' = << >>
    /\ events' = << >>
    /\ outcome' = "running"
    /\ result' = None
    /\ UNCHANGED << script, stub, response, audio_content, wav_on_memory, wf,
                    artifacts, history >>

\* lines 33-62: client.models.generate_content is called
GenerateContentCall ==
    /\ pc = "L33"
    /\ requests' = Append(requests, SynthesisRequest(script))
    /\ events' = Append(events, "generate_content:call")
    /\ pc' = "L33_wait"
    /\ UNCHANGED << script, stub, response, audio_content, wav_on_memory, wf,
                    saves, outcome, result, artifacts, history, ncalls >>

\* line 33: the call returns and response is assigned
GenerateContentReturns ==
    /\ pc = "L33_wait"
    /\ response' = stub
    /\ events' = Append(events, "generate_content:return")
    /\ pc' = "L64"
    /\ UNCHANGED << script, stub, audio_content, wav_on_memory, wf, requests,
                    saves, outcome, result, artifacts, history, ncalls >>

\* line 33: the call raises; nothing in podcast_speaker catches it
GenerateContentRaises ==
    /\ pc = "L33_wait"
    /\ events' = Append(events, "generate_content:raise")
    /\ outcome' = "raised"
    /\ pc' = "done"
    /\ UNCHANGED << script, stub, response, audio_content, wav_on_memory, wf,
                    requests, saves, result, artifacts, history, ncalls >>

\* lines 64-72
Extract ==
    /\ pc = "L64"
    /\ audio_content' = ExtractAudio(response)
    /\ pc' = "L74"
    /\ UNCHANGED << script, stub, response, wav_on_memory, wf, requests, saves,
                    events, outcome, result, artifacts, history, ncalls >>

\* lines 74-78 as they would be with one retry of the synthesis call
ReturnFailureRetry ==
    /\ pc = "L74"
    /\ IsNone(audio_content)
    /\ IF Len(requests) < 2
       THEN /\ pc' = "L33"
            /\ UNCHANGED << result, outcome, events >>
       ELSE /\ result' = FailureResult
            /\ outcome' = "returned"
            /\ events' = Append(events, "return")
            /\ pc' = "done"
    /\ UNCHANGED << script, stub, response, audio_content, wav_on_memory, wf,
                    requests, saves, artifacts, history, ncalls >>

\* lines 74-78 as they would be if the absent payload were raised as an error
ReturnFailureRaises ==
    /\ pc = "L74"
    /\ IsNone(audio_content)
    /\ outcome' = "raised"
    /\ events' = Append(events, "raise")
    /\ pc' = "done"
    /\ UNCHANGED << script, stub, response, audio_content, wav_on_memory, wf,
                    requests, saves, result, artifacts, history, ncalls >>

\* lines 74-78
ReturnFailure ==
    /\ pc = "L74"
    /\ IsNone(audio_content)
    /\ result' = FailureResult
    /\ outcome' = "returned"
    /\ events' = Append(events, "return")
    /\ pc' = "done"
    /\ UNCHANGED << script, stub, response, audio_content, wav_on_memory, wf,
                    requests, saves, artifacts, history, ncalls >>

\* lines 74 and 80: the payload is there; its length is logged
LogAudioLength ==
    /\ pc = "L74"
    /\ ~IsNone(audio_content)
    /\ Len(audio_content.value) >= 0
    /\ pc' = "L82"
    /\ UNCHANGED << script, stub, response, audio_content, wav_on_memory, wf,
                    requests, saves, events, outcome, result, artifacts,
                    history, ncalls >>

\* line 82 as it would be with one module-level buffer, created once
NewBytesIOReused ==
    /\ pc = "L82"
    /\ wav_on_memory' = IF wav_on_memory = None THEN BytesIO(<< >>) ELSE wav_on_memory
    /\ pc' = "L83"
    /\ UNCHANGED << script, stub, response, audio_content, wf, requests, saves,
                    events, outcome, result, artifacts, history, ncalls >>

\* line 82: wav_on_memory = io.BytesIO()
NewBytesIO ==
    /\ pc = "L82"
    /\ wav_on_memory' = BytesIO(<< >>)
    /\ pc' = "L83"
    /\ UNCHANGED << script, stub, response, audio_content, wf, requests, saves,
                    events, outcome, result, artifacts, history, ncalls >>

\* line 83: wave.open(wav_on_memory, 'wb') as wf
WaveOpen ==
    /\ pc = "L83"
    /\ wf' = WaveWrite
    /\ pc' = "L84"
    /\ UNCHANGED << script, stub, response, audio_content, wav_on_memory,
                    requests, saves, events, outcome, result, artifacts,
                    history, ncalls >>

\* line 84: wf.setnchannels(1)
SetNChannels ==
    /\ pc = "L84"
    /\ wf' = [wf EXCEPT !.nchannels = NCHANNELS]
    /\ pc' = "L85"
    /\ UNCHANGED << script, stub, response, audio_content, wav_on_memory,
                    requests, saves, events, outcome, result, artifacts,
                    history, ncalls >>

\* line 85: wf.setsampwidth(2)
SetSampWidth ==
    /\ pc = "L85"
    /\ wf' = [wf EXCEPT !.sampwidth = SAMPWIDTH]
    /\ pc' = "L86"
    /\ UNCHANGED << script, stub, response, audio_content, wav_on_memory,
                    requests, saves, events, outcome, result, artifacts,
                    history, ncalls >>

\* line 86: wf.setframerate(24000)
SetFrameRate ==
    /\ pc = "L86"
    /\ wf' = [wf EXCEPT !.framerate = FRAMERATE]
    /\ pc' = "L87"
    /\ UNCHANGED << script, stub, response, audio_content, wav_on_memory,
                    requests, saves, events, outcome, result, artifacts,
                    history, ncalls >>

\* line 87: wf.writeframes(audio_content)
WriteAudioFrames ==
    /\ pc = "L87"
    /\ LET r == WriteFrames(wf, wav_on_memory.value, audio_content.value)
       IN  /\ wf' = r.w
           /\ wav_on_memory' = BytesIO(r.f)
    /\ pc' = "L87_exit"
    /\ UNCHANGED << script, stub, response, audio_content, requests, saves,
                    events, outcome, result, artifacts, history, ncalls >>

\* end of the with block of line 83: wf.close()
ExitWith ==
    /\ pc = "L87_exit"
    /\ LET r == WaveClose(wf, wav_on_memory.value)
       IN  /\ wf' = r.w
           /\ wav_on_memory' = BytesIO(r.f)
    /\ events' = Append(events, "wave:close")
    /\ pc' = "L89"
    /\ UNCHANGED << script, stub, response, audio_content, requests, saves,
                    outcome, result, artifacts, history, ncalls >>

\* lines 89-92 as they would be with the payload's own media type passed on
SaveArtifactCallPcmMime ==
    /\ pc = "L89"
    /\ saves' = Append(saves,
                  [filename |-> ARTIFACT_FILENAME,
                   artifact |-> PartFromBytes(wav_on_memory.value, PCM_MIME)])
    /\ events' = Append(events, "save_artifact:call")
    /\ pc' = "L89_await"
    /\ UNCHANGED << script, stub, response, audio_content, wav_on_memory, wf,
                    requests, outcome, result, artifacts, history, ncalls >>

\* lines 89-92: tool_context.save_artifact is called with the container
SaveArtifactCall ==
    /\ pc = "L89"
    /\ saves' = Append(saves,
                  [filename |-> ARTIFACT_FILENAME,
                   artifact |-> PartFromBytes(wav_on_memory.value,
                                              ARTIFACT_MIME_TYPE)])
    /\ events' = Append(events, "save_artifact:call")
    /\ pc' = "L89_await"
    /\ UNCHANGED << script, stub, response, audio_content, wav_on_memory, wf,
                    requests, outcome, result, artifacts, history, ncalls >>

\* line 89: the awaited call completes; the store holds the artifact
SaveArtifactReturns ==
    /\ pc = "L89_await"
    /\ artifacts' = Append(artifacts, saves[Len(saves)])
    /\ events' = Append(events, "save_artifact:return")
    /\ pc' = "L93"
    /\ UNCHANGED << script, stub, response, audio_content, wav_on_memory, wf,
                    requests, saves, outcome, result, history, ncalls >>

\* line 89 as it would be inside a try/except that reports a failure result
SaveArtifactRaisesCaught ==
    /\ pc = "L89_await"
    /\ events' = events \o << "save_artifact:raise", "return" >>
    /\ result' = FailureResult
    /\ outcome' = "returned"
    /\ pc' = "done"
    /\ UNCHANGED << script, stub, response, audio_content, wav_on_memory, wf,
                    requests, saves, artifacts, history, ncalls >>

\* line 89: the awaited call raises; nothing in podcast_speaker catches it
SaveArtifactRaises ==
    /\ pc = "L89_await"
    /\ events' = Append(events, "save_artifact:raise")
    /\ outcome' = "raised"
    /\ pc' = "done"
    /\ UNCHANGED << script, stub, response, audio_content, wav_on_memory, wf,
                    requests, saves, result, artifacts, history, ncalls >>

\* lines 93-97
ReturnSuccess ==
    /\ pc = "L93"
    /\ result' = SuccessResult
    /\ outcome' = "returned"
    /\ events' = Append(events, "return")
    /\ pc' = "done"
    /\ UNCHANGED << script, stub, response, audio_content, wav_on_memory, wf,
                    requests, saves, artifacts, history, ncalls >>

\* the caller has the result (or the exception); the tool can be called again
Finish ==
    /\ pc = "done"
    /\ history' = Append(history, [outcome |-> outcome, result |-> result])
    /\ pc' = "idle"
    /\ UNCHANGED << script, stub, response, audio_content, wav_on_memory, wf,
                    requests, saves, events, outcome, result, artifacts,
                    ncalls >>

Next ==
    \/ Call
    \/ GenerateContentCall
    \/ GenerateContentReturns
    \/ GenerateContentRaises
    \/ Extract
    \/ ReturnFailure
    \/ LogAudioLength
    \/ NewBytesIO
    \/ WaveOpen
    \/ SetNChannels
    \/ SetSampWidth
    \/ SetFrameRate
    \/ WriteAudioFrames
    \/ ExitWith
    \/ SaveArtifactCall
    \/ SaveArtifactReturns
    \/ SaveArtifactRaises
    \/ ReturnSuccess
    \/ Finish

Spec == Init /\ [][Next]_vars

TypeOK ==
    /\ pc \in { "idle", "L33", "L33_wait", "L64", "L74", "L82", "L83", "L84",
                "L85", "L86", "L87", "L87_exit", "L89", "L89_await", "L93",
                "done" }
    /\ outcome \in { "running", "returned", "raised" }
    /\ ncalls \in 0..MaxCalls


----------------------------------------------------------------------------
(* Vocabulary of the properties.  The predicates on a response are written *)
(* from the shape of the response alone, level by level.                   *)

Has(e) == \E i \in 1..Len(events) : events[i] = e
Count(e) == Cardinality({ i \in 1..Len(events) : events[i] = e })
\* position of the first occurrence of e in the trace, 0 when there is none
Index(e) ==
    IF Has(e)
    THEN CHOOSE i \in 1..Len(events) :
            events[i] = e /\ \A j \in 1..(i - 1) : events[j] # e
    ELSE 0

Returned == Has("generate_content:return")
Over == pc \in { "done", "idle" } /\ events # << >>

HasFirstPart(r) ==
    /\ r # None
    /\ r.candidates # None
    /\ r.candidates.items # << >>
    /\ r.candidates.items[1].content # None
    /\ r.candidates.items[1].content.parts # None
    /\ r.candidates.items[1].content.parts.items # << >>

FirstPart(r) == r.candidates.items[1].content.parts.items[1]

\* absent at some level: no response, no candidates, no content, no parts,
\* or a first part without inline data
PayloadAbsent(r) == ~HasFirstPart(r) \/ FirstPart(r).inline_data = None

\* the first part holds inline data whose bytes are there
PayloadPresent(r) ==
    /\ HasFirstPart(r)
    /\ FirstPart(r).inline_data # None
    /\ FirstPart(r).inline_data.data # None

FirstPayload(r) == FirstPart(r).inline_data.data.value

Container(i) == saves[i].artifact.inline_data.data.value

----------------------------------------------------------------------------
(* C1 *)

\* C1: when the synthesis response lacks the audio payload at any level
\* (no response, no candidates, no content, no parts, no inline data in the
\* first part), the invocation makes no artifact-store call, does not enter
\* the packaging steps, and ends by returning exactly the failure result.
C1_AbsentPayloadFails ==
    (Returned /\ PayloadAbsent(response)) =>
        /\ saves = << >>
        /\ ~Has("save_artifact:call")
        /\ pc \in { "L64", "L74", "done", "idle" }
        /\ pc \in { "done", "idle" } =>
              /\ outcome = "returned"
              /\ result = [status |-> "failure",
                           detail |-> "failed to generate podcast audio"]

\* the deepest case: every level is there but the first part has no inline data
C1_Witness ==
    /\ pc = "done"
    /\ HasFirstPart(response)
    /\ FirstPart(response).inline_data = None
    /\ result = [status |-> "failure",
                 detail |-> "failed to generate podcast audio"]
    /\ saves = << >>

----------------------------------------------------------------------------
(* C2 *)

\* C2: when synthesis yields a payload and the store call does not raise, the
\* finished invocation has made exactly one artifact-store call, with filename
\* "podcast.wav" and media type "audio/wav", the call has completed, and the
\* result has status "success" and filename "podcast.wav".
C2_SuccessStoresOnce ==
    (Over /\ Returned /\ PayloadPresent(response) /\ ~Has("save_artifact:raise")) =>
        /\ Len(saves) = 1
        /\ Count("save_artifact:call") = 1
        /\ Count("save_artifact:return") = 1
        /\ saves[1].filename = "podcast.wav"
        /\ saves[1].artifact.inline_data.mime_type = "audio/wav"
        /\ outcome = "returned"
        /\ result.status = "success"
        /\ result.filename = "podcast.wav"

C2_Witness ==
    /\ pc = "done"
    /\ PayloadPresent(response)
    /\ Has("save_artifact:return")
    /\ Len(saves) = 1
    /\ outcome = "returned"

----------------------------------------------------------------------------
(* C3 *)

\* C3: for a non-empty payload, the bytes handed to the artifact store are a
\* 44-byte RIFF/WAVE header declaring PCM, 1 channel, 16-bit samples and
\* 24000 Hz, with the data length equal to the payload's length, followed by
\* the payload's bytes unchanged.
C3_WavRoundTrip ==
    \A i \in 1..Len(saves) :
        (PayloadPresent(response) /\ Len(FirstPayload(response)) > 0) =>
            LET b == Container(i)
                p == FirstPayload(response)
            IN  /\ Len(b) = 44 + Len(p)
                /\ Slice(b, 0, 4) = << 82, 73, 70, 70 >>
                /\ U32(b, 4) = 36 + Len(p)
                /\ Slice(b, 8, 12) = << 87, 65, 86, 69 >>
                /\ Slice(b, 12, 16) = << 102, 109, 116, 32 >>
                /\ U32(b, 16) = 16
                /\ U16(b, 20) = 1
                /\ U16(b, 22) = 1
                /\ U32(b, 24) = 24000
                /\ U32(b, 28) = 48000
                /\ U16(b, 32) = 2
                /\ U16(b, 34) = 16
                /\ Slice(b, 36, 40) = << 100, 97, 116, 97 >>
                /\ U32(b, 40) = Len(p)
                /\ Slice(b, 44, Len(b)) = p

\* a payload of one frame whose two bytes differ has been packaged and handed over
C3_Witness ==
    /\ Len(saves) = 1
    /\ PayloadPresent(response)
    /\ FirstPayload(response) = << 0, 255 >>
    /\ Slice(Container(1), 44, 46) = << 0, 255 >>

----------------------------------------------------------------------------
(* C4 *)

\* C4 as stated: every finished invocation has returned a record whose status
\* is "success" or "failure".
C4_AlwaysResult ==
    pc = "done" =>
        /\ outcome = "returned"
        /\ result # None
        /\ result.status \in { "success", "failure" }

\* C4, amended: every invocation in which neither the synthesis call nor the
\* store call raises ends by returning a record whose status is "success" or
\* "failure"; an invocation ends without a record only by one of the two
\* calls raising.
C4_ResultUnlessRaised ==
    /\ (pc = "done" /\ ~Has("generate_content:raise") /\ ~Has("save_artifact:raise")) =>
          /\ outcome = "returned"
          /\ result # None
          /\ result.status \in { "success", "failure" }
    /\ (pc = "done" /\ outcome # "returned") =>
          /\ result = None
          /\ events[Len(events)] \in { "generate_content:raise", "save_artifact:raise" }

C4_Witness ==
    /\ pc = "done"
    /\ ~Has("generate_content:raise")
    /\ ~Has("save_artifact:raise")
    /\ outcome = "returned"
    /\ ncalls = MaxCalls

----------------------------------------------------------------------------
(* C5 *)

\* C5: with the same transcript and a synthesis capability that answers with
\* the same payload every time, every invocation hands the same bytes to the
\* artifact store (same filename, same media type, same container) and every
\* invocation that returns, returns the same result.
C5_SameContainerEachTime ==
    /\ \A i, j \in 1..Len(artifacts) : artifacts[i] = artifacts[j]
    /\ \A i \in 1..Len(saves), j \in 1..Len(artifacts) : saves[i] = artifacts[j]
    /\ \A i, j \in 1..Len(history) :
          (history[i].outcome = "returned" /\ history[j].outcome = "returned")
              => history[i].result = history[j].result

\* two invocations have stored a container for a non-empty payload
C5_Witness ==
    /\ Len(artifacts) = 2
    /\ Len(history) = 2
    /\ PayloadPresent(stub)
    /\ Len(FirstPayload(stub)) = 2
    /\ history[1].outcome = "returned"
    /\ history[2].outcome = "returned"

----------------------------------------------------------------------------
(* C7 *)

\* C7: within one invocation the synthesis capability is called at most once,
\* and exactly once by the time the invocation ends, with the audio modality;
\* the store is called at most once, and only after synthesis has returned
\* and the wave writer has been closed on a complete container; the result
\* is returned last, and a success result only after the store call completed.
C7_StrictOrder ==
    /\ Count("generate_content:call") <= 1
    /\ Len(requests) = Count("generate_content:call")
    /\ \A i \in 1..Len(requests) : requests[i].response_modalities = << "AUDIO" >>
    /\ pc = "done" => Count("generate_content:call") = 1
    /\ Count("save_artifact:call") <= 1
    /\ Len(saves) = Count("save_artifact:call")
    /\ Has("save_artifact:call") =>
          /\ Returned
          /\ Index("generate_content:return") < Index("wave:close")
          /\ Index("wave:close") < Index("save_artifact:call")
          /\ wf.closed
          /\ wf.headerwritten
          /\ wf.datawritten = Len(audio_content.value)
          /\ wf.datalength = wf.datawritten
          /\ Container(1) = wav_on_memory.value
          /\ Len(Container(1)) = 44 + Len(audio_content.value)
    /\ Has("return") =>
          /\ Count("return") = 1
          /\ events[Len(events)] = "return"
          /\ Index("generate_content:return") > 0
          /\ Index("generate_content:return") < Index("return")
    /\ (Has("return") /\ result.status = "success") =>
          /\ Index("save_artifact:call") > 0
          /\ Index("save_artifact:call") < Index("save_artifact:return")
          /\ Index("save_artifact:return") < Index("return")

C7_Witness ==
    /\ pc = "done"
    /\ events = << "generate_content:call", "generate_content:return",
                   "wave:close", "save_artifact:call", "save_artifact:return",
                   "return" >>

----------------------------------------------------------------------------
(* C8 *)

\* C8: once the synthesis call or the store call has raised, the invocation
\* is over with the exception as its outcome: no result is returned (neither
\* success nor a failure record), nothing happens after the raise, and the
\* call that raised was made once.
C8_FailurePropagates ==
    (Has("generate_content:raise") \/ Has("save_artifact:raise")) =>
        /\ pc \in { "done", "idle" }
        /\ outcome = "raised"
        /\ result = None
        /\ ~Has("return")
        /\ events[Len(events)] \in { "generate_content:raise", "save_artifact:raise" }
        /\ Count("generate_content:call") = 1
        /\ Count("save_artifact:call") <= 1
        /\ Has("save_artifact:raise") =>
              /\ Count("save_artifact:call") = 1
              /\ ~Has("save_artifact:return")
        /\ pc = "idle" =>
              history[Len(history)] = [outcome |-> "raised", result |-> None]

C8_Witness ==
    /\ pc = "idle"
    /\ Has("save_artifact:raise")
    /\ outcome = "raised"
    /\ Len(saves) = 1

----------------------------------------------------------------------------
(* C9 *)

\* C9: once the payload is extracted it is decided by the first part of the
\* first candidate alone: without inline data there, no payload is extracted
\* and the invocation ends with the failure result, whatever later parts and
\* later candidates hold; with inline data there, the payload is that part's
\* data.
C9_FirstPartOnly ==
    (Returned /\ pc # "L64" /\ HasFirstPart(response)) =>
        IF FirstPart(response).inline_data = None
        THEN /\ audio_content = None
             /\ saves = << >>
             /\ pc \in { "done", "idle" } =>
                   result = [status |-> "failure",
                             detail |-> "failed to generate podcast audio"]
        ELSE /\ audio_content = FirstPart(response).inline_data.data
             /\ \A i \in 1..Len(saves) :
                   audio_content # None =>
                      Slice(Container(i), 44, Len(Container(i)))
                          = FirstPart(response).inline_data.data.value

\* the first part has no inline data, a later part of the same candidate and
\* a later candidate both hold audio, and the result is the failure result
C9_Witness ==
    /\ pc = "done"
    /\ HasFirstPart(response)
    /\ FirstPart(response).inline_data = None
    /\ LET cands == response.candidates.items
           parts == cands[1].content.parts.items
       IN  /\ Len(parts) > 1
           /\ parts[2].inline_data # None
           /\ parts[2].inline_data.data # None
           /\ Len(cands) > 1
           /\ HasFirstPart(GenerateContentResponse(List(Tail(cands))))
           /\ PayloadPresent(GenerateContentResponse(List(Tail(cands))))
    /\ result.status = "failure"

----------------------------------------------------------------------------
(* C10 *)

\* C10: a finished invocation has returned the failure result exactly when
\* the extracted payload is None.  Inline data with a None payload gives the
\* failure result and no store call; inline data with an empty payload is
\* packaged as a 44-byte container with a zero data length, handed to the
\* store as "podcast.wav", and reported as success when the store completes.
C10_NoneOnlyFails ==
    /\ (pc = "done" /\ outcome = "returned") =>
          ((result.status = "failure") <=> (audio_content = None))
    /\ (Over /\ Returned /\ HasFirstPart(response)
             /\ FirstPart(response).inline_data # None) =>
          IF FirstPart(response).inline_data.data = None
          THEN /\ result = [status |-> "failure",
                            detail |-> "failed to generate podcast audio"]
               /\ saves = << >>
          ELSE (FirstPayload(response) = << >>) =>
                  /\ Len(saves) = 1
                  /\ saves[1].filename = "podcast.wav"
                  /\ Len(Container(1)) = 44
                  /\ U32(Container(1), 40) = 0
                  /\ ~Has("save_artifact:raise") => result.status = "success"

C10_Witness ==
    /\ pc = "done"
    /\ PayloadPresent(response)
    /\ FirstPayload(response) = << >>
    /\ Len(saves) = 1
    /\ Len(Container(1)) = 44
    /\ outcome = "returned"
    /\ result.status = "success"

====
